---- MODULE Spec2Model ----
(***************************************************************************)
(* A model of the tides application (src/tides/tidesapp): the main loop    *)
(* of TidesApp.mainapp, the loader load_user_locations, the search-retry   *)
(* loop of get_weekly_tides_via_search_box, the weekly retriever           *)
(* get_weekly_tides and the row parser parse_high_tide_data with the date  *)
(* resolver day2datetime.                                                  *)
(*                                                                         *)
(* Python values are tagged with their type where the code's behaviour     *)
(* depends on it: PyStr(s) is a str, PyInt(n) an int.  A str is a sequence *)
(* of pieces of text: single characters for the rows of a tide table,      *)
(* which the row parser matches character by character, and longer pieces  *)
(* for URLs and place names.  A dict is a function from its keys.          *)
(*                                                                         *)
(* The browser (Selenium) is the environment: the outcome of every wait    *)
(* and the content of every page are chosen nondeterministically.          *)
(***************************************************************************)
EXTENDS Integers, Sequences, FiniteSets, TLC

\* ------------------------------------------------------------------------
\* Bounds of the model (not program constants)
\* ------------------------------------------------------------------------

\* the largest number of rows the weekly table of a page is given
MaxRows == 8

\* the largest number of tide groups the text of a row is given
MaxGroups == 5
MaxDay == 32
MaxSmall == 1200
MaxProcs == 2

\* ------------------------------------------------------------------------
\* Python values
\* ------------------------------------------------------------------------

PyNone == [t |-> "NoneType", v |-> <<>>]
PyStr(s) == [t |-> "str", v |-> s]
PyInt(n) == [t |-> "int", v |-> n]

\* the result of a call: a returned value, or a raised exception
Return(x) == [exc |-> "none", val |-> x]
Raise(e) == [exc |-> e, val |-> <<>>]

\* ------------------------------------------------------------------------
\* Constants of class TidesApp
\* ------------------------------------------------------------------------

MAX_TIMEOUTS == 10

\* the list the generator backoff() multiplies by 10000
BACKOFF_BASE == <<2, 4, 8, 12, 20, 32, 48, 64>>
BACKOFF_REPEAT == 10000

\* a generator that stays at the last delay instead of cycling
SleepsNoCycle(i) ==
    BACKOFF_BASE[IF i > Len(BACKOFF_BASE) THEN Len(BACKOFF_BASE) ELSE i]

\* sleeps = [2, 4, 8, 12, 20, 32, 48, 64] * 10000: the i-th element
\* (1-based) of the repeated list
Sleeps(i) == BACKOFF_BASE[((i - 1) % Len(BACKOFF_BASE)) + 1]

\* next(sleeper) for a generator that has already yielded n values: the
\* value yielded, or StopIteration when the list is used up
BackoffNext(n) ==
    IF n < Len(BACKOFF_BASE) * BACKOFF_REPEAT THEN Return(Sleeps(n + 1))
    ELSE Raise("StopIteration")


\* ------------------------------------------------------------------------
\* Input files
\* ------------------------------------------------------------------------

BASE_URL == <<"https://www.tideschart.com">>

\* the literal "https://www.tideschart.com/" of load_user_locations
SITE_PREFIX == <<"https://www.tideschart.com", "/">>

Salisbury == "United-States/Massachusetts/Essex-County/Salisbury/"
Newburyport == "United-States/Massachusetts/Essex-County/Newburyport/"

DEFAULT_URLS ==
    << [URL |-> PyStr(BASE_URL \o <<"/", Salisbury>>)],
       [URL |-> PyStr(BASE_URL \o <<"/", Newburyport>>)],
       [URL |-> PyStr(BASE_URL \o <<"/", "United-States/Massachusetts/Essex-County/Rowley/">>)],
       [URL |-> PyStr(BASE_URL \o <<"/", "United-States/Massachusetts/Essex-County/Crane-Beach/">>)],
       [URL |-> PyStr(BASE_URL
                      \o <<"/", "United-States/Massachusetts/Essex-County/Wingaersheek-Beach/">>)],
       [URL |-> PyStr(BASE_URL \o <<"/", "United-States/Massachusetts/Essex-County/Rockport/">>)] >>

\* str.startswith
StartsWith(s, prefix) ==
    /\ Len(s) >= Len(prefix)
    /\ SubSeq(s, 1, Len(prefix)) = prefix

\* what process_command_line returns and the content of the file it names:
\* no -f option, a path that is not a file, or a file holding a JSON object
NoFile == [kind |-> "none", data |-> <<>>]
MissingFile == [kind |-> "missing", data |-> <<>>]
JsonFile(d) == [kind |-> "json", data |-> d]

UrlSalisbury == [URL |-> PyStr(SITE_PREFIX \o <<Salisbury>>)]
UrlNewburyport == [URL |-> PyStr(SITE_PREFIX \o <<Newburyport>>)]
UrlNotTheSite == [URL |-> PyStr(<<"http://not-the-site.com", "/", "x">>)]
UrlNotAStr == [URL |-> PyInt(5)]
MuniSalisbury ==
    [MUNI |-> PyStr(<<"Salisbury, MA, USA">>), HINT |-> PyStr(<<"/", Salisbury>>)]
MuniNewburyport ==
    [MUNI |-> PyStr(<<"Newburyport, MA, USA">>), HINT |-> PyStr(<<"/", Newburyport>>)]
MuniNoHint == [MUNI |-> PyStr(<<"Rowley, MA, USA">>)]
MuniEmptyHint == [MUNI |-> PyStr(<<"Rowley, MA, USA">>), HINT |-> PyStr(<<>>)]
MuniExtraKey ==
    [MUNI |-> PyStr(<<"Salisbury, MA, USA">>), HINT |-> PyStr(<<"/", Salisbury>>),
     NOTE |-> PyStr(<<"x">>)]

Files ==
    { NoFile, MissingFile,
      JsonFile([URLs |-> <<UrlSalisbury, UrlNewburyport>>]),
      JsonFile([URLs |-> <<UrlSalisbury, UrlNotTheSite>>]),
      JsonFile([URLs |-> <<UrlNotAStr>>]),
      JsonFile([URLs |-> <<MuniSalisbury>>]),
      JsonFile([MUNIs |-> <<MuniSalisbury, MuniNewburyport>>]),
      JsonFile([MUNIs |-> <<MuniSalisbury, MuniNoHint>>]),
      JsonFile([MUNIs |-> <<UrlSalisbury>>]),
      JsonFile([SEARCHES |-> <<MuniSalisbury>>]),
      JsonFile([MUNIs |-> <<MuniEmptyHint>>]),
      JsonFile([MUNIs |-> <<MuniExtraKey>>, EXTRA |-> <<>>]) }

\* rows with a key too many or a key of another name, and the rows of the
\* input of TideschartDotCom: a search term and a hint
UrlExtraKey == [URL |-> PyStr(SITE_PREFIX \o <<Salisbury>>), NOTE |-> PyStr(<<"x">>)]
UrlMisnamed == [Url |-> PyStr(SITE_PREFIX \o <<Salisbury>>)]
SearchSalisbury ==
    [SEARCH |-> PyStr(<<"Salisbury, MA, USA">>), HINT |-> PyStr(<<"/", Salisbury>>)]
SearchNewburyport ==
    [SEARCH |-> PyStr(<<"Newburyport, MA, USA">>), HINT |-> PyStr(<<"/", Newburyport>>)]
SearchNoHint == [SEARCH |-> PyStr(<<"Rowley, MA, USA">>)]
SearchEmptyHint == [SEARCH |-> PyStr(<<"Rowley, MA, USA">>), HINT |-> PyStr(<<>>)]
SearchExtraKey ==
    [SEARCH |-> PyStr(<<"Salisbury, MA, USA">>), HINT |-> PyStr(<<"/", Salisbury>>),
     NOTE |-> PyStr(<<"x">>)]
SearchMisnamed ==
    [SEARCH |-> PyStr(<<"Salisbury, MA, USA">>), Hint |-> PyStr(<<"/", Salisbury>>)]

\* the files the loaders are called on one by one
LoaderFiles ==
    Files \cup
    { JsonFile([URLs |-> <<UrlNewburyport, UrlSalisbury>>]),
      JsonFile([URLs |-> <<UrlNotTheSite, UrlSalisbury>>]),
      JsonFile([URLs |-> <<UrlSalisbury>>, EXTRA |-> <<>>]),
      JsonFile([Urls |-> <<UrlSalisbury>>]),
      JsonFile([URLs |-> <<UrlSalisbury, UrlExtraKey>>]),
      JsonFile([URLs |-> <<UrlSalisbury, UrlMisnamed>>]),
      JsonFile([SEARCHES |-> <<SearchSalisbury, SearchNewburyport>>]),
      JsonFile([SEARCHES |-> <<SearchNewburyport, SearchSalisbury>>]),
      JsonFile([SEARCHES |-> <<SearchSalisbury, SearchNoHint>>]),
      JsonFile([SEARCHES |-> <<SearchSalisbury, SearchEmptyHint>>]),
      JsonFile([SEARCHES |-> <<SearchSalisbury, SearchExtraKey>>]),
      JsonFile([SEARCHES |-> <<SearchSalisbury, SearchMisnamed>>]),
      JsonFile([SEARCHES |-> <<SearchSalisbury>>, EXTRA |-> <<>>]),
      JsonFile([Searches |-> <<SearchSalisbury>>]),
      JsonFile([SEARCHES |-> <<UrlSalisbury>>]) }

\* ------------------------------------------------------------------------
\* TidesApp.load_user_locations
\* ------------------------------------------------------------------------

\* the checks of one location in mode URLs: the exception raised, or "none"
CheckURL(location) ==
    IF "URL" \notin DOMAIN location THEN "KeyError"
    ELSE IF location.URL.t # "str" THEN "ValueError"
    ELSE IF ~StartsWith(location.URL.v, SITE_PREFIX) THEN "ValueError"
    ELSE "none"

\* the checks of one location in mode MUNIs
CheckMUNI(location) ==
    IF "MUNI" \notin DOMAIN location \/ "HINT" \notin DOMAIN location
    THEN "KeyError"
    ELSE IF location.MUNI.t # "str" THEN "ValueError"
    ELSE IF location.HINT.t # "str" THEN "ValueError"
    ELSE "none"

\* for loops that check the first location and leave the rest for later
CheckFirstLocation(m, locs) ==
    IF locs = <<>> THEN "none"
    ELSE IF m = "URLs" THEN CheckURL(locs[1])
    ELSE IF m = "MUNIs" THEN CheckMUNI(locs[1])
    ELSE "none"

\* the for loops of load_user_locations: the exception of the first
\* location that fails its checks
CheckLocations(m, locs) ==
    LET check(l) == IF m = "URLs" THEN CheckURL(l)
                    ELSE IF m = "MUNIs" THEN CheckMUNI(l)
                    ELSE "none"
        bad == {k \in 1..Len(locs) : check(locs[k]) # "none"}
    IN  IF bad = {} THEN "none"
        ELSE check(locs[CHOOSE k \in bad : \A j \in bad : k <= j])

\* load_user_locations(file) on an object whose mode is m0 and whose
\* locations are l0: the exception raised and the fields as it leaves them
LoadUserLocations(f, m0, l0) ==
    LET m == IF f.kind = "none" THEN m0
             ELSE IF "URLs" \in DOMAIN f.data THEN "URLs"
             ELSE IF "MUNIs" \in DOMAIN f.data THEN "MUNIs"
             ELSE m0
        l == IF f.kind = "none" THEN DEFAULT_URLS
             ELSE IF "URLs" \in DOMAIN f.data THEN f.data.URLs
             ELSE IF "MUNIs" \in DOMAIN f.data THEN f.data.MUNIs
             ELSE l0
    IN  IF f.kind = "json" /\ "URLs" \notin DOMAIN f.data
                          /\ "MUNIs" \notin DOMAIN f.data
        THEN [exc |-> "ValueError", mode |-> m, locations |-> l]
        ELSE [exc |-> CheckLocations(m, l), mode |-> m, locations |-> l]

\* ------------------------------------------------------------------------
\* json_utils.check_dict_keys and the loaders of TideschartDotCom
\* ------------------------------------------------------------------------

\* type(x) == dict. A JSON object is a function on its keys; a string or a
\* number is a value with the fields t and v, and no object of the input
\* has a key t.
IsDict(x) == "t" \notin DOMAIN x

\* check_dict_keys(dictionary, num_keys, expected_keys): the exception
\* raised, or "none"
check_dict_keys(dictionary, num_keys, expected_keys) ==
    IF ~IsDict(dictionary) THEN "ValueError"
    ELSE IF Cardinality(DOMAIN dictionary) # num_keys THEN "ValueError"
    ELSE IF \E k \in 1..Len(expected_keys) : expected_keys[k] \notin DOMAIN dictionary
    THEN "ValueError"
    ELSE "none"

\* a for loop that raises stops at the first row that fails: the least
\* of the numbers of the failing rows
FirstRow(bad) == CHOOSE k \in bad : \A j \in bad : k <= j

\* a loop body that does not look at the prefix of the URL
CheckRowNoPrefix(row) ==
    IF check_dict_keys(row, 1, <<"URL">>) # "none" THEN "ValueError"
    ELSE IF row.URL.t # "str" THEN "AttributeError"
    ELSE "none"

\* the body of the first loop of load_URLs
CheckRowURL(row) ==
    IF check_dict_keys(row, 1, <<"URL">>) # "none" THEN "ValueError"
    ELSE IF row.URL.t # "str" THEN "AttributeError"
    ELSE IF ~StartsWith(row.URL.v, SITE_PREFIX) THEN "ValueError"
    ELSE "none"

\* TideschartDotCom.load_URLs(file): the list of the URLs, or the exception
\* raised
load_URLs(f) ==
    IF f.kind = "none" THEN Raise("ValueError")
    ELSE IF f.kind = "missing" THEN Raise("FileNotFoundError")
    ELSE IF check_dict_keys(f.data, 1, <<"URLs">>) # "none" THEN Raise("ValueError")
    ELSE LET rows == f.data.URLs
             bad == {k \in 1..Len(rows) : CheckRowURL(rows[k]) # "none"}
         IN  IF bad # {} THEN Raise(CheckRowURL(rows[FirstRow(bad)]))
             ELSE Return([k \in 1..Len(rows) |-> rows[k].URL])

\* the body of the first loop of load_searches
CheckRowSearch(row) == check_dict_keys(row, 2, <<"SEARCH", "HINT">>)

\* TideschartDotCom.load_searches(file): the list of the pairs of a search
\* term and a hint, or the exception raised
load_searches(f) ==
    IF f.kind = "none" THEN Raise("ValueError")
    ELSE IF f.kind = "missing" THEN Raise("FileNotFoundError")
    ELSE IF check_dict_keys(f.data, 1, <<"SEARCHES">>) # "none" THEN Raise("ValueError")
    ELSE LET rows == f.data.SEARCHES
             bad == {k \in 1..Len(rows) : CheckRowSearch(rows[k]) # "none"}
         IN  IF bad # {} THEN Raise(CheckRowSearch(rows[FirstRow(bad)]))
             ELSE Return([k \in 1..Len(rows) |-> <<rows[k].SEARCH, rows[k].HINT>>])

\* ------------------------------------------------------------------------
\* The text of a table row
\* ------------------------------------------------------------------------

\* the two glyphs of the page: "^" stands for the up triangle (high tide,
\* sunrise) and "v" for the down triangle (low tide, sunset)
UP == "^"
DOWN == "v"

\* how the text of a row is put together: its head (weekday and day
\* number), the kind of each of its tide groups, its tail (sunrise and
\* sunset) and the white space between its parts
Heads == {"ok", "noday", "nodayno"}
Kinds == {"hi", "lo", "xx", "noampm"}
Tails == {"ok", "missing", "garbled"}
Seps == {" ", "\n"}

HeadText(h, sep) ==
    IF h = "ok" THEN <<"M", "o", "n">> \o <<" ">> \o <<"2", "2">> \o <<sep>>
    ELSE IF h = "noday" THEN <<"2", "2">> \o <<sep>>
    ELSE <<"M", "o", "n">> \o <<sep>>

\* the clock time and the height of the k-th tide group of a row
TideTime ==
    << <<"3", ":", "3", "6">>, <<"9", ":", "0", "9">>, <<"3", ":", "4", "1">>,
       <<"9", ":", "1", "7">>, <<"1", "1", ":", "5", "8">>, <<"1", "1", ":", "5", "9">> >>
TideAmPm ==
    << <<"a", "m">>, <<"a", "m">>, <<"p", "m">>, <<"p", "m">>, <<"p", "m">>, <<"p", "m">> >>
TideHeight ==
    << <<"0", ".", "9", "8">>, <<"6", ".", "5", "6">>, <<"1", ".", "6", "4">>,
       <<"7", ".", "5", "5">>, <<"2">>, <<"3", ".", "1">> >>

GroupText(k, kind, sep) ==
    TideTime[k]
    \o (IF kind = "xx" THEN <<"x", "x">>
        ELSE IF kind = "noampm" THEN <<>>
        ELSE TideAmPm[k])
    \o <<" ", IF kind = "hi" THEN UP ELSE DOWN, " ">>
    \o TideHeight[k] \o <<" ", "f", "t", sep>>

RECURSIVE GroupsText(_, _, _)
GroupsText(kinds, k, sep) ==
    IF k > Len(kinds) THEN <<>>
    ELSE GroupText(k, kinds[k], sep) \o GroupsText(kinds, k + 1, sep)

TailText(t) ==
    IF t = "ok" THEN <<"^", " ", "5", ":", "5", "7", "a", "m", " ", "v", " ", "7", ":", "3", "5", "p", "m">>
    ELSE IF t = "garbled" THEN <<"^", "x", "5", ":", "5", "7", "a", "m", " ", "v", " ", "7", ":", "3", "5", "p", "m">>
    ELSE <<>>

\* the rows the pages show: 2 to MaxGroups tide groups, each high or low,
\* and rows with one tide group whose time is not a time
GroupKinds ==
    UNION { [1..n -> {"hi", "lo"}] : n \in 2..MaxGroups }
    \cup { <<"lo", "hi", "xx">>, <<"lo", "hi", "noampm">>,
           <<"lo", "xx", "lo", "hi">>, <<"noampm", "hi", "lo", "hi">> }

RowShapes ==
    [head : Heads, groups : GroupKinds, tail : Tails, sep : Seps]

\* the text of the row of shape sh
RowText(sh) ==
    HeadText(sh.head, sh.sep) \o GroupsText(sh.groups, 1, sh.sep)
    \o TailText(sh.tail)

\* ------------------------------------------------------------------------
\* The pattern of parse_high_tide_data
\*
\* The regular expression is a program of instructions, one per element of
\* the expression, run over the characters of the text.  A configuration
\* [pc, p, m] is a position pc in the program, a position p in the text
\* (the next character to read) and the marks m put so far: the positions
\* in the text where the named groups begin and end.
\* ------------------------------------------------------------------------

\* \d and \s
IsDigit(c) == c \in {"0", "1", "2", "3", "4", "5", "6", "7", "8", "9"}
IsSpace(c) == c \in {" ", "\n", "\t"}
InClass(cls, c) == IF cls = "d" THEN IsDigit(c) ELSE IsSpace(c)

\* the instructions: an alternation of literals; min or more characters
\* of a class (\d+ is Many("d", 1), \s* is Many("s", 0)); one character
\* of a class; the beginning or the end of a named group; a part of n
\* instructions with g named groups that may be absent, (?:..|)
OneOf(W) == [op |-> "oneof", w |-> W, cls |-> "", n |-> 0, g |-> 0]
Lit(w) == OneOf({w})
Many(cls, min) == [op |-> "many", w |-> {}, cls |-> cls, n |-> min, g |-> 0]
One(cls) == [op |-> "one", w |-> {}, cls |-> cls, n |-> 0, g |-> 0]
Mark == [op |-> "mark", w |-> {}, cls |-> "", n |-> 0, g |-> 0]
Optional(n, g) == [op |-> "optional", w |-> {}, cls |-> "", n |-> n, g |-> g]

\* \d+:\d\d\s*(?:am|pm)
TIME_PATTERN ==
    << Many("d", 1), Lit(<<":">>), One("d"), One("d"), Many("s", 0),
       OneOf({<<"a", "m">>, <<"p", "m">>}) >>

\* \d+(?:\.\d+|)
HEIGHT_PATTERN == << Many("d", 1), Optional(2, 0), Lit(<<".">>), Many("d", 1) >>

\* (?P<tideN_time>..)\s+(?P<tideN_hilo>(?:^|v))\s+(?P<tideN_height>..)\s*ft\s+
\* (the height is not marked: the code never reads that group)
TIDE_PATTERN ==
    <<Mark>> \o TIME_PATTERN \o <<Mark>>
    \o << Many("s", 1), Mark, OneOf({<<UP>>, <<DOWN>>}), Mark, Many("s", 1) >>
    \o HEIGHT_PATTERN
    \o << Many("s", 0), Lit(<<"f", "t">>), Many("s", 1) >>

WEEKDAYS ==
    { <<"M", "o", "n">>, <<"T", "u", "e">>, <<"W", "e", "d">>, <<"T", "h", "u">>,
      <<"F", "r", "i">>, <<"S", "a", "t">>, <<"S", "u", "n">> }

\* a pattern that ends after the tide groups, with no sunrise and sunset
ROW_PATTERN_NO_SUN ==
    << Many("s", 0), Mark, OneOf(WEEKDAYS), Mark, Many("s", 1),
       Mark, Many("d", 1), Mark, Many("s", 1) >>
    \o TIDE_PATTERN \o TIDE_PATTERN \o TIDE_PATTERN
    \o <<Optional(Len(TIDE_PATTERN), 2)>> \o TIDE_PATTERN
    \o << Mark, Mark, Mark, Mark >>

\* the whole pattern, from ^ to the \s* before $
ROW_PATTERN ==
    << Many("s", 0), Mark, OneOf(WEEKDAYS), Mark, Many("s", 1),
       Mark, Many("d", 1), Mark, Many("s", 1) >>
    \o TIDE_PATTERN \o TIDE_PATTERN \o TIDE_PATTERN
    \o <<Optional(Len(TIDE_PATTERN), 2)>> \o TIDE_PATTERN
    \o << Lit(<<UP>>), Many("s", 0), Mark >> \o TIME_PATTERN \o << Mark, Many("s", 1) >>
    \o << Lit(<<DOWN>>), Many("s", 0), Mark >> \o TIME_PATTERN \o << Mark, Many("s", 0) >>

\* the configurations after the instruction at c.pc has run on the text s
Step(prog, s, c) ==
    LET ins == prog[c.pc]
    IN  CASE ins.op = "oneof" ->
               { [pc |-> c.pc + 1, p |-> c.p + Len(w), m |-> c.m] :
                   w \in { x \in ins.w : /\ c.p + Len(x) - 1 <= Len(s)
                                         /\ SubSeq(s, c.p, c.p + Len(x) - 1) = x } }
          [] ins.op = "many" ->
               { [pc |-> c.pc + 1, p |-> q, m |-> c.m] :
                   q \in { r \in (c.p + ins.n)..(Len(s) + 1) :
                             \A k \in c.p..(r - 1) : InClass(ins.cls, s[k]) } }
          [] ins.op = "one" ->
               IF c.p <= Len(s) /\ InClass(ins.cls, s[c.p])
               THEN {[pc |-> c.pc + 1, p |-> c.p + 1, m |-> c.m]}
               ELSE {}
          [] ins.op = "mark" ->
               {[pc |-> c.pc + 1, p |-> c.p, m |-> Append(c.m, c.p)]}
          [] ins.op = "optional" ->
               { [pc |-> c.pc + 1, p |-> c.p, m |-> c.m],
                 [pc |-> c.pc + 1 + ins.n, p |-> c.p,
                  m |-> c.m \o [k \in 1..(2 * ins.g) |-> 0]] }

\* the configurations that reach the end of the program
RECURSIVE Run(_, _, _)
Run(prog, s, C) ==
    IF \A c \in C : c.pc > Len(prog) THEN C
    ELSE Run(prog, s, UNION { IF c.pc > Len(prog) THEN {c} ELSE Step(prog, s, c) :
                                c \in C })

\* the matches of the pattern against the whole text: $ is the end of it
RowPattern(s) ==
    { c \in Run(ROW_PATTERN, s, {[pc |-> 1, p |-> 1, m |-> <<>>]}) :
        c.p = Len(s) + 1 }

\* the first marks of the named groups
G_dayno == 3
G_tide_time(n) == 5 + 4 * (n - 1)
G_tide_hilo(n) == 7 + 4 * (n - 1)

\* matched.group(name): the text between the two marks of the group, or
\* None for a group that took no part in the match
Group(s, c, g) ==
    IF c.m[g] = 0 THEN PyNone ELSE PyStr(SubSeq(s, c.m[g], c.m[g + 1] - 1))

\* re.sub('\n', ' ', data)
ReSubNewline(s) == [k \in 1..Len(s) |-> IF s[k] = "\n" THEN " " ELSE s[k]]

\* ------------------------------------------------------------------------
\* Dates and times
\* ------------------------------------------------------------------------

IsLeap(y) == (y % 4 = 0 /\ y % 100 # 0) \/ y % 400 = 0

DaysInMonth(y, m) ==
    IF m = 2 THEN (IF IsLeap(y) THEN 29 ELSE 28)
    ELSE IF m \in {4, 6, 9, 11} THEN 30
    ELSE 31

\* a constructor that does not check the day
DatetimeUnchecked(y, m, d) ==
    Return([year |-> y, month |-> m, day |-> d, hour |-> 0, minute |-> 0])

\* the constructor datetime(year, month, day): midnight of that day, or
\* ValueError when there is no such day
Datetime(y, m, d) ==
    IF m \in 1..12 /\ d >= 1 /\ d <= DaysInMonth(y, m)
    THEN Return([year |-> y, month |-> m, day |-> d, hour |-> 0, minute |-> 0])
    ELSE Raise("ValueError")

\* day2datetime with <= for <: today's own day number rolls over
day2datetime_RollsToday(queried_day, today_datetime) ==
    IF queried_day.t # "int" THEN Raise("TypeError")
    ELSE LET month1 == IF queried_day.v <= today_datetime.day
                       THEN today_datetime.month + 1
                       ELSE today_datetime.month
             queried_month == IF month1 > 12 THEN 1 ELSE month1
             queried_year == IF month1 > 12 THEN today_datetime.year + 1
                             ELSE today_datetime.year
         IN  Datetime(queried_year, queried_month, queried_day.v)

\* day2datetime without the month overflow
day2datetime_SameMonth(queried_day, today_datetime) ==
    IF queried_day.t # "int" THEN Raise("TypeError")
    ELSE Datetime(today_datetime.year, today_datetime.month, queried_day.v)

\* day2datetime without the year overflow
day2datetime_SameYear(queried_day, today_datetime) ==
    IF queried_day.t # "int" THEN Raise("TypeError")
    ELSE LET month1 == IF queried_day.v < today_datetime.day
                       THEN today_datetime.month + 1
                       ELSE today_datetime.month
             queried_month == IF month1 > 12 THEN 1 ELSE month1
         IN  Datetime(today_datetime.year, queried_month, queried_day.v)

\* day2datetime(queried_day) on the day today.  The comparison of
\* queried_day with today's day number is between ints: Python raises
\* TypeError when queried_day is a str.
day2datetime(queried_day, today_datetime) ==
    IF queried_day.t # "int" THEN Raise("TypeError")
    ELSE LET month1 == IF queried_day.v < today_datetime.day
                       THEN today_datetime.month + 1
                       ELSE today_datetime.month
             queried_month == IF month1 > 12 THEN 1 ELSE month1
             queried_year == IF month1 > 12 THEN today_datetime.year + 1
                             ELSE today_datetime.year
         IN  Datetime(queried_year, queried_month, queried_day.v)

DigitValue(c) ==
    CASE c = "0" -> 0 [] c = "1" -> 1 [] c = "2" -> 2 [] c = "3" -> 3
      [] c = "4" -> 4 [] c = "5" -> 5 [] c = "6" -> 6 [] c = "7" -> 7
      [] c = "8" -> 8 [] c = "9" -> 9

RECURSIVE ToInt(_)
ToInt(digits) ==
    IF digits = <<>> THEN 0
    ELSE 10 * ToInt(SubSeq(digits, 1, Len(digits) - 1))
         + DigitValue(digits[Len(digits)])

\* timestr2time(timestr): the clock time of a text such as "9:17pm" or
\* "9:17 pm", on a 12-hour clock, pm adding 12 hours
timestr2time(timestr) ==
    LET s == timestr.v
        colon == CHOOSE k \in 1..Len(s) : s[k] = ":"
        h == ToInt(SubSeq(s, 1, colon - 1))
        mi == ToInt(SubSeq(s, colon + 1, colon + 2))
        pm == s[Len(s) - 1] = "p"
    IN  IF h \notin 1..12 \/ mi > 59 THEN Raise("ValueError")
        ELSE Return([hour |-> (h % 12) + (IF pm THEN 12 ELSE 0), minute |-> mi])

\* date_time_combine(date, time): the timestamp of that time on that date
date_time_combine(d, t) ==
    [year |-> d.year, month |-> d.month, day |-> d.day,
     hour |-> t.hour, minute |-> t.minute]

\* ------------------------------------------------------------------------
\* TidesApp.parse_high_tide_data
\* ------------------------------------------------------------------------

\* the loop over the four tide groups, from group n on: the timestamps of
\* the groups marked high, in the order of the groups, or the exception
\* of the first step that raises
RECURSIVE HighTides(_, _, _, _)
HighTides(s, matched, this_day, n) ==
    IF n > 4 THEN Return(<<>>)
    ELSE LET timestr == Group(s, matched, G_tide_time(n))
             hilo == Group(s, matched, G_tide_hilo(n))
             rest == HighTides(s, matched, this_day, n + 1)
         IN  IF hilo = PyStr(<<UP>>)
             THEN LET this_high_tide_time == timestr2time(timestr)
                  IN  IF this_high_tide_time.exc # "none" THEN this_high_tide_time
                      ELSE IF rest.exc # "none" THEN rest
                      ELSE Return(<<date_time_combine(this_day, this_high_tide_time.val)>>
                                  \o rest.val)
             ELSE rest

\* parse_high_tide_data(data) on the day today: the list of the high tides
\* of the row, or the exception raised
parse_high_tide_data(data, today) ==
    LET s == ReSubNewline(data)
        matches == RowPattern(s)
    IN  IF matches = {} THEN Raise("ValueError")
        ELSE LET matched == CHOOSE c \in matches : TRUE
                 this_day == day2datetime(Group(s, matched, G_dayno), today)
             IN  IF this_day.exc # "none" THEN this_day
                 ELSE LET this_day_high_tides == HighTides(s, matched, this_day.val, 1)
                      IN  IF this_day_high_tides.exc # "none" THEN this_day_high_tides
                          ELSE IF Len(this_day_high_tides.val) < 1 THEN Raise("ValueError")
                          ELSE IF Len(this_day_high_tides.val) > 2 THEN Raise("ValueError")
                          ELSE this_day_high_tides

\* TideschartDotCom.parse_high_tide_data(data): it reads the row from
\* data['URL'], and is TidesApp.parse_high_tide_data from there on
TideschartDotCom_parse_high_tide_data(data, today) ==
    IF ~IsDict(data) THEN Raise("TypeError")
    ELSE IF "URL" \notin DOMAIN data THEN Raise("KeyError")
    ELSE IF data.URL.t # "str" THEN Raise("TypeError")
    ELSE parse_high_tide_data(data.URL.v, today)

\* ------------------------------------------------------------------------
\* int2str
\* ------------------------------------------------------------------------

\* a float: only its type matters, its text stands for the value
PyFloat(x) == [t |-> "float", v |-> x]

\* Int2str.MIN and Int2str.MAX
MIN == 0 - 999999999
MAX == 999999999

\* Int2str.LEXICON[Int2strLang.ENGLISH]
LEXICON ==
    (0 - 1 :> "negative") @@ (0 :> "zero") @@ (1 :> "one") @@ (2 :> "two")
    @@ (3 :> "three") @@ (4 :> "four") @@ (5 :> "five") @@ (6 :> "six")
    @@ (7 :> "seven") @@ (8 :> "eight") @@ (9 :> "nine") @@ (10 :> "ten")
    @@ (11 :> "eleven") @@ (12 :> "twelve") @@ (13 :> "thirteen")
    @@ (14 :> "fourteen") @@ (15 :> "fifteen") @@ (16 :> "sixteen")
    @@ (17 :> "seventeen") @@ (18 :> "eighteen") @@ (19 :> "nineteen")
    @@ (20 :> "twenty") @@ (30 :> "thirty") @@ (40 :> "forty") @@ (50 :> "fifty")
    @@ (60 :> "sixty") @@ (70 :> "seventy") @@ (80 :> "eighty") @@ (90 :> "ninety")
    @@ (100 :> "hundred") @@ (1000 :> "thousand") @@ (1000000 :> "million")
    @@ (1000000000 :> "billion")

\* str.strip() of a string made of words and single spaces: the spaces at
\* both ends are dropped
RECURSIVE Strip(_)
Strip(str) ==
    IF str = <<>> THEN str
    ELSE IF Head(str) = " " THEN Strip(Tail(str))
    ELSE IF str[Len(str)] = " " THEN Strip(SubSeq(str, 1, Len(str) - 1))
    ELSE str

\* __int2str_util__ with > 20 for >= 20
int2str_util_Over20(n) ==
    IF n < 1 \/ n > 999 THEN Raise("ValueError")
    ELSE LET hundreds == IF n >= 100
                         THEN <<" ", LEXICON[n \div 100], " ", LEXICON[100]>>
                         ELSE <<>>
             n1 == IF n >= 100 THEN n % 100 ELSE n
             tenths == IF n1 > 20 /\ n1 <= 99 THEN <<" ", LEXICON[(n1 \div 10) * 10]>>
                       ELSE <<>>
             n2 == IF n1 > 20 /\ n1 <= 99 THEN n1 % 10 ELSE n1
             ones == IF n2 >= 1 /\ n2 <= 19 THEN <<" ", LEXICON[n2]>> ELSE <<>>
         IN  Return(Strip(hundreds \o tenths \o ones))

\* Int2str.__int2str_util__(n, ENGLISH): the words of an integer from 1 to
\* 999.  int(n/100) is the quotient, n being positive.
int2str_util(n) ==
    IF n < 1 \/ n > 999 THEN Raise("ValueError")
    ELSE LET hundreds == IF n >= 100
                         THEN <<" ", LEXICON[n \div 100], " ", LEXICON[100]>>
                         ELSE <<>>
             n1 == IF n >= 100 THEN n % 100 ELSE n
             tenths == IF n1 >= 20 /\ n1 <= 99 THEN <<" ", LEXICON[(n1 \div 10) * 10]>>
                       ELSE <<>>
             n2 == IF n1 >= 20 /\ n1 <= 99 THEN n1 % 10 ELSE n1
             ones == IF n2 >= 1 /\ n2 <= 19 THEN <<" ", LEXICON[n2]>> ELSE <<>>
         IN  Return(Strip(hundreds \o tenths \o ones))

\* the range check of int2str with the two ends left out
OutOfRangeStrict(n) == n <= MIN \/ n >= MAX

\* n < Int2str.MIN or n > Int2str.MAX
OutOfRange(n) == n < MIN \/ n > MAX

\* Int2str.int2str(n): the string, as its words and spaces, or the
\* exception raised
int2str(n) ==
    IF n.t # "int" THEN Raise("ValueError")
    ELSE IF OutOfRange(n.v) THEN Raise("ValueError")
    ELSE IF n.v = 0 THEN Return(<<"zero">>)
    ELSE LET sign == IF n.v < 0 THEN <<LEXICON[0 - 1]>> ELSE <<>>
             a == IF n.v < 0 THEN 0 - n.v ELSE n.v
             millions == IF a >= 1000000
                         THEN <<" ">> \o int2str_util(a \div 1000000).val
                              \o <<" ", LEXICON[1000000]>>
                         ELSE <<>>
             a1 == IF a >= 1000000 THEN a % 1000000 ELSE a
             thousandths == IF a1 >= 1000
                            THEN <<" ">> \o int2str_util(a1 \div 1000).val
                                 \o <<" ", LEXICON[1000]>>
                            ELSE <<>>
             a2 == IF a1 >= 1000 THEN a1 % 1000 ELSE a1
             ones == IF a2 > 0 THEN <<" ">> \o int2str_util(a2).val ELSE <<>>
         IN  Return(Strip(sign \o millions \o thousandths \o ones))

\* the arguments int2str is called with: every integer up to MaxSmall in
\* size, the integers whose three groups of digits are taken from Groups,
\* the two ends of the range and their neighbours, and values that are
\* not integers
Groups == {0, 1, 9, 10, 11, 19, 20, 21, 45, 55, 99, 100, 101, 110, 119, 120, 345, 999}
Int2strArgs ==
    {PyInt(n) : n \in (0 - MaxSmall)..MaxSmall}
    \cup {PyInt(sign * (m * 1000000 + th * 1000 + u)) :
             sign \in {0 - 1, 1}, m \in Groups, th \in Groups, u \in Groups}
    \cup {PyInt(MIN), PyInt(MIN - 1), PyInt(MAX), PyInt(MAX + 1),
          PyInt(0 - 2000000000), PyInt(2000000000)}
    \cup {PyStr(<<"bogus">>), PyStr(<<"5">>), PyFloat(<<"3.14159">>), PyFloat(<<"5.0">>)}

\* ------------------------------------------------------------------------
\* The state of the program
\* ------------------------------------------------------------------------

\* the days day2datetime is called on, and the days it is asked for: a
\* year and a leap year, every day of both, and the numbers from 0 to
\* MaxDay, and a day number as the regular expression delivers it
TestYears == {2022, 2024}
TestDates ==
    {d \in [year : TestYears, month : 1..12, day : 1..31] :
        d.day <= DaysInMonth(d.year, d.month)}
QueriedDays == {PyInt(q) : q \in 0..MaxDay} \cup {PyStr(<<"2", "2">>)}

\* the days the program is run on
Dates ==
    { [year |-> 2022, month |-> 9, day |-> 21],
      [year |-> 2022, month |-> 12, day |-> 28] }

VARIABLES
    file,                       \* the input: see Files
    today,                      \* the date of the system clock
    mode,                       \* self.mode
    locations,                  \* self.locations
    driver,                     \* self.driver: "none", "open" or "closed"
    weekly_tides,               \* self.weekly_tides: None, or a dict
    attempts,                   \* self.attempts (the place names; the times are left out)
    sleep_tracker,              \* self.sleep_tracker
    timeouts,                   \* self.timeouts
    too_many_searches_errors,   \* self.too_many_searches_errors
    still_searching,            \* locals of get_weekly_tides_via_search_box
    this_result,                \*   "None" or "WebElement"
    sleeper,                    \*   the number of values the generator has yielded
    weekly_tides_dom,           \* locals of get_weekly_tides: the number of rows found
    i,                          \*   the loop variable
    weekly_tides_one_location,  \*   the list of high tides
    data,                       \* the row last parsed: its shape, its text, the result
    pc,                         \* the statement the program is at
    idx,                        \* the number of locations the loop of mainapp has taken
    error,                      \* the exception that ended the run and the statement
                                \*   that raised it, or "none"
    trace,                      \* what the program has done to the browser, and its sleeps
    call,                       \* a function called on its own: its name, its
                                \*   argument, the date of the clock, what it returned
    bt_scanning_proc,           \* self.bt_scanning_proc of Pybluez_ez: "None" or "proc"
    btctl_bound,                \* whether the module's global btctl is bound
    discovering,                \* the 'discovering' setting 'bluetoothctl show' prints
    scan_procs,                 \* the 'bluetoothctl scan on' processes of the host
    scan_status,                \* the local of scan_off
    bt_pc,                      \* the statement of scan_off the program is at
    bt_result,                  \* what scan_off returned or raised
    bt_trace                    \* the methods scan_off has called, and their results

vars ==
    << file, today, mode, locations, driver, weekly_tides, attempts, sleep_tracker,
       timeouts, too_many_searches_errors, still_searching, this_result, sleeper,
       weekly_tides_dom, i, weekly_tides_one_location, data, pc, idx, error, trace,
       call, bt_scanning_proc, btctl_bound, discovering, scan_procs, scan_status,
       bt_pc, bt_result, bt_trace >>

search_vars ==
    << timeouts, too_many_searches_errors, still_searching, this_result, sleeper >>
table_vars == << weekly_tides_dom, i, weekly_tides_one_location, data >>
input_vars == << file, today, call >>
bt_vars ==
    << bt_scanning_proc, btctl_bound, discovering, scan_procs, scan_status, bt_pc,
       bt_result, bt_trace >>
app_vars ==
    << mode, locations, driver, weekly_tides, attempts, sleep_tracker, search_vars,
       table_vars, pc, idx, error, trace >>

\* the events of a loop that takes the locations last to first
EventReversed(op, n) ==
    [op |-> op, loc |-> Len(locations) + 1 - idx, n |-> n, day |-> today]

\* an entry of trace: what was done, for which location, a number (the
\* seconds slept, the rows found), and the date of the clock at that time
Event(op, n) == [op |-> op, loc |-> idx, n |-> n, day |-> today]

NoRow == [shape |-> [head |-> "", groups |-> <<>>, tail |-> "", sep |-> ""],
          text |-> <<>>, result |-> Return(<<>>)]

NoError == [exc |-> "none", at |-> ""]

NoDate == [year |-> 0, month |-> 0, day |-> 0]
NoCall == [fn |-> "", arg |-> <<>>, today |-> NoDate, result |-> Return(<<>>)]

\* scan_off has not returned
NoResult == [exc |-> "none", val |-> "unset"]

\* Pybluez_ez.__init__, on a host that is not scanning, in a program that
\* imported the module
Pybluez_ez_init ==
    /\ bt_scanning_proc = "None"
    /\ btctl_bound = FALSE
    /\ discovering = "no"
    /\ scan_procs = 0
    /\ scan_status = "None"
    /\ bt_pc = "idle"
    /\ bt_result = NoResult
    /\ bt_trace = <<>>

\* TidesApp.__init__, and the input
Init ==
    /\ file \in Files
    /\ today \in Dates
    /\ mode = "UNKNOWN"
    /\ locations = <<>>
    /\ driver = "none"
    /\ weekly_tides = PyNone
    /\ attempts = <<>>
    /\ sleep_tracker = <<>>
    /\ timeouts = 0
    /\ too_many_searches_errors = 0
    /\ still_searching = FALSE
    /\ this_result = "None"
    /\ sleeper = 0
    /\ weekly_tides_dom = 0
    /\ i = 0
    /\ weekly_tides_one_location = <<>>
    /\ data = NoRow
    /\ pc = "mainapp"
    /\ idx = 0
    /\ error = NoError
    /\ trace = <<>>
    /\ call = NoCall
    /\ Pybluez_ez_init

\* an exception that is caught and dropped: the loop of mainapp goes on
RaisedAndDiscarded(e) ==
    /\ error' = error
    /\ pc' = "for"

\* an exception leaves mainapp
Raised(e) ==
    /\ error' = [exc |-> e, at |-> pc]
    /\ pc' = "raised"

\* d[key] = value
DictSet(d, key, value) ==
    [k \in DOMAIN d \cup {key} |-> IF k = key THEN value ELSE d[k]]

\* ------------------------------------------------------------------------
\* TidesApp.mainapp
\* ------------------------------------------------------------------------

\* mainapp, from the command line to the creation of the browser session
Load ==
    /\ pc = "mainapp"
    /\ IF file.kind = "missing"
       THEN /\ Raised("FileNotFoundError")
            /\ UNCHANGED << mode, locations, driver, weekly_tides >>
       ELSE LET loaded == LoadUserLocations(file, mode, locations)
            IN  /\ mode' = loaded.mode
                /\ locations' = loaded.locations
                /\ IF loaded.exc # "none"
                   THEN /\ Raised(loaded.exc)
                        /\ UNCHANGED << driver, weekly_tides >>
                   ELSE /\ driver' = "open"
                        /\ weekly_tides' = <<>>
                        /\ pc' = "for"
                        /\ UNCHANGED error
    /\ UNCHANGED << input_vars, bt_vars, attempts, sleep_tracker, search_vars, table_vars,
                    idx, trace >>

\* for URL in self.locations: the call of get_weekly_tides(URL['URL'])
NextURL ==
    /\ pc = "for"
    /\ mode = "URLs"
    /\ idx < Len(locations)
    /\ idx' = idx + 1
    /\ pc' = "get_weekly_tides"
    /\ UNCHANGED << input_vars, bt_vars, mode, locations, driver, weekly_tides, attempts,
                    sleep_tracker, search_vars, table_vars, error, trace >>

\* a call of the search that does not reset the two counters
NextMUNIKeepsCounters ==
    /\ pc = "for"
    /\ mode = "MUNIs"
    /\ idx < Len(locations)
    /\ idx' = idx + 1
    /\ this_result' = "None"
    /\ still_searching' = TRUE
    /\ sleeper' = 0
    /\ pc' = "while"
    /\ UNCHANGED << input_vars, bt_vars, mode, locations, driver, weekly_tides, attempts,
                    sleep_tracker, timeouts, too_many_searches_errors, table_vars,
                    error, trace >>

\* for X in self.locations: the call of get_weekly_tides_via_search_box(X),
\* up to the while loop
NextMUNI ==
    /\ pc = "for"
    /\ mode = "MUNIs"
    /\ idx < Len(locations)
    /\ idx' = idx + 1
    /\ this_result' = "None"
    /\ timeouts' = 0
    /\ too_many_searches_errors' = 0
    /\ still_searching' = TRUE
    /\ sleeper' = 0
    /\ pc' = "while"
    /\ UNCHANGED << input_vars, bt_vars, mode, locations, driver, weekly_tides, attempts,
                    sleep_tracker, table_vars, error, trace >>

\* the end of either loop, or neither loop (mode is UNKNOWN): driver.close()
Close ==
    /\ pc = "for"
    /\ mode \in {"URLs", "MUNIs"} => idx >= Len(locations)
    /\ driver' = "closed"
    /\ trace' = Append(trace, [op |-> "close", loc |-> 0, n |-> 0, day |-> today])
    /\ pc' = "done"
    /\ UNCHANGED << input_vars, bt_vars, mode, locations, weekly_tides, attempts, sleep_tracker,
                    search_vars, table_vars, idx, error >>

\* ------------------------------------------------------------------------
\* TidesApp.get_weekly_tides_via_search_box
\* ------------------------------------------------------------------------

\* the municipality the search is for
municipality == locations[idx]

\* while still_searching and self.timeouts < TidesApp.MAX_TIMEOUTS
While ==
    /\ pc = "while"
    /\ pc' = IF still_searching /\ timeouts < MAX_TIMEOUTS THEN "submit"
             ELSE "after_while"
    /\ UNCHANGED << input_vars, bt_vars, mode, locations, driver, weekly_tides, attempts,
                    sleep_tracker, search_vars, table_vars, idx, error, trace >>

\* the head of the loop body: the home page is loaded and the search is
\* submitted.  Either wait of up to 30 seconds may time out, and its
\* TimeoutException leaves the method.
Submit ==
    /\ pc = "submit"
    /\ \E outcome \in {"submitted", "no_form", "no_button"} :
         IF outcome = "no_form"
         THEN /\ trace' = trace \o <<Event("get", 0)>>
              /\ Raised("TimeoutException")
         ELSE IF outcome = "no_button"
         THEN /\ trace' = trace \o <<Event("get", 0), Event("send_keys", 0)>>
              /\ Raised("TimeoutException")
         ELSE /\ trace' = trace \o <<Event("get", 0), Event("send_keys", 0),
                                     Event("click_search", 0)>>
              /\ pc' = "wait_result"
              /\ UNCHANGED error
    /\ UNCHANGED << input_vars, bt_vars, mode, locations, driver, weekly_tides, attempts,
                    sleep_tracker, search_vars, table_vars, idx >>

\* a finally block that leaves the search on
FinallyKeepsSearching(result) == still_searching

\* the finally block of the loop body
Finally(result) == IF result # "None" THEN FALSE ELSE still_searching

\* the try block: the attempt is recorded, then the wait of up to 5 seconds
\* for a clickable result.  When it finds one, the finally block ends the
\* search; when it times out, the handler counts the timeout.
WaitResult ==
    /\ pc = "wait_result"
    /\ attempts' = Append(attempts, municipality.MUNI)
    /\ \E found \in BOOLEAN :
         IF found
         THEN /\ this_result' = "WebElement"
              /\ still_searching' = Finally("WebElement")
              /\ trace' = Append(trace, Event("found", 0))
              /\ pc' = "while"
              /\ UNCHANGED timeouts
         ELSE /\ timeouts' = timeouts + 1
              /\ trace' = Append(trace, Event("timeout", 0))
              /\ pc' = "too_many"
              /\ UNCHANGED << this_result, still_searching >>
    /\ UNCHANGED << input_vars, bt_vars, mode, locations, driver, weekly_tides, sleep_tracker,
                    too_many_searches_errors, sleeper, table_vars, idx, error >>

\* the handler, after the timeout is counted: the wait of up to 5 seconds
\* for the notice "Too many search requests".  WebDriverWait.until returns
\* the element it finds and raises TimeoutException when it finds none:
\* it never returns None.  An exception raised in the handler leaves the
\* method, after the finally block.
TooMany ==
    /\ pc = "too_many"
    /\ \E too_many \in {"WebElement", "TimeoutException"} :
         IF too_many = "TimeoutException"
         THEN /\ still_searching' = Finally(this_result)
              /\ Raised("TimeoutException")
              /\ UNCHANGED too_many_searches_errors
         ELSE /\ too_many_searches_errors' =
                    IF too_many # "None" THEN too_many_searches_errors + 1
                    ELSE too_many_searches_errors
              /\ pc' = "sleep"
              /\ UNCHANGED << still_searching, error >>
    /\ UNCHANGED << input_vars, bt_vars, mode, locations, driver, weekly_tides, attempts,
                    sleep_tracker, timeouts, this_result, sleeper, table_vars, idx,
                    trace >>

\* the end of the handler: the next delay of the generator is recorded and
\* slept, then the finally block
Sleep ==
    /\ pc = "sleep"
    /\ LET sleepval == BackoffNext(sleeper)
       IN  IF sleepval.exc # "none"
           THEN /\ Raised(sleepval.exc)
                /\ UNCHANGED << sleeper, sleep_tracker, trace >>
           ELSE /\ sleeper' = sleeper + 1
                /\ sleep_tracker' =
                       Append(sleep_tracker, <<municipality.MUNI, sleepval.val>>)
                /\ trace' = Append(trace, Event("sleep", sleepval.val))
                /\ pc' = "while"
                /\ UNCHANGED error
    /\ still_searching' = Finally(this_result)
    /\ UNCHANGED << input_vars, bt_vars, mode, locations, driver, weekly_tides, attempts,
                    timeouts, too_many_searches_errors, this_result, table_vars, idx >>

\* after the loop: TimeoutError when the search is still on, else the
\* click on the result.  The method returns None, which mainapp stores.
AfterWhile ==
    /\ pc = "after_while"
    /\ IF still_searching
       THEN /\ Raised("TimeoutError")
            /\ UNCHANGED << weekly_tides, trace >>
       ELSE /\ trace' = Append(trace, Event("click_result", 0))
            /\ weekly_tides' = DictSet(weekly_tides, municipality.MUNI, PyNone)
            /\ pc' = "for"
            /\ UNCHANGED error
    /\ UNCHANGED << input_vars, bt_vars, mode, locations, driver, attempts, sleep_tracker,
                    search_vars, table_vars, idx >>

\* ------------------------------------------------------------------------
\* TidesApp.get_weekly_tides
\* ------------------------------------------------------------------------

URL == locations[idx].URL

\* a check that lets longer tables through
RowCountAtLeast(n) == n >= 7

\* len(weekly_tides_dom) == 7
RowCountOK(n) == n = 7

\* the page of the location is loaded, the wait of up to 30 seconds for a
\* row of the weekly table either times out or ends, the rows then on the
\* page are collected and counted
LoadTable ==
    /\ pc = "get_weekly_tides"
    /\ \E present \in BOOLEAN, rows \in 0..MaxRows :
         IF ~present
         THEN /\ trace' = trace \o <<Event("get", 0)>>
              /\ Raised("TimeoutException")
              /\ UNCHANGED << weekly_tides_dom, i, weekly_tides_one_location >>
         ELSE /\ trace' = trace \o <<Event("get", 0), Event("find_elements", rows)>>
              /\ weekly_tides_dom' = rows
              /\ IF ~RowCountOK(rows)
                 THEN /\ Raised("ValueError")
                      /\ UNCHANGED << i, weekly_tides_one_location >>
                 ELSE /\ weekly_tides_one_location' = <<>>
                      /\ i' = 0
                      /\ pc' = "row"
                      /\ UNCHANGED error
    /\ UNCHANGED << input_vars, bt_vars, mode, locations, driver, weekly_tides, attempts,
                    sleep_tracker, search_vars, data, idx >>

\* one turn of for i in range(7): the text of row i is read and parsed.
\* After the last turn the list is returned and mainapp stores it.
ParseRow ==
    /\ pc = "row"
    /\ i < 7
    /\ \E shape \in RowShapes :
         LET text == RowText(shape)
             parsed == parse_high_tide_data(text, today)
         IN  /\ data' = [shape |-> shape, text |-> text, result |-> parsed]
             /\ trace' = Append(trace, Event("parse", i))
             /\ IF parsed.exc # "none"
                THEN /\ Raised(parsed.exc)
                     /\ UNCHANGED << i, weekly_tides_one_location, weekly_tides >>
                ELSE /\ weekly_tides_one_location' =
                            weekly_tides_one_location \o parsed.val
                     /\ i' = i + 1
                     /\ UNCHANGED error
                     /\ IF i' = 7
                        THEN /\ weekly_tides' =
                                    DictSet(weekly_tides, URL, weekly_tides_one_location')
                             /\ pc' = "for"
                        ELSE UNCHANGED << weekly_tides, pc >>
    /\ UNCHANGED << input_vars, bt_vars, mode, locations, driver, attempts, sleep_tracker,
                    search_vars, weekly_tides_dom, idx >>

\* the day after d
NextDay(d) ==
    IF d.day < DaysInMonth(d.year, d.month) THEN [d EXCEPT !.day = d.day + 1]
    ELSE IF d.month < 12 THEN [d EXCEPT !.month = d.month + 1, !.day = 1]
    ELSE [year |-> d.year + 1, month |-> 1, day |-> 1]

\* midnight passes while the rows of a table are parsed: day2datetime
\* reads date.today() anew in every call.  One midnight per run.
Tick ==
    /\ pc = "row"
    /\ today \in Dates
    /\ today' = NextDay(today)
    /\ UNCHANGED << file, call, app_vars, bt_vars >>

\* ------------------------------------------------------------------------
\* The program
\* ------------------------------------------------------------------------

Next ==
    \/ Load
    \/ NextURL
    \/ NextMUNI
    \/ Close
    \/ While
    \/ Submit
    \/ WaitResult
    \/ TooMany
    \/ Sleep
    \/ AfterWhile
    \/ LoadTable
    \/ ParseRow
    \/ Tick

Spec == Init /\ [][Next]_vars

\* ------------------------------------------------------------------------
\* The functions called on their own, as the unit tests call them: one
\* call on a fresh object
\* ------------------------------------------------------------------------

\* day2datetime(queried_day) on the day today_datetime
CallDay2datetime ==
    /\ call = NoCall
    /\ \E today_datetime \in TestDates, queried_day \in QueriedDays :
           /\ call' = [fn |-> "day2datetime", arg |-> queried_day, today |-> today_datetime,
                       result |-> day2datetime(queried_day, today_datetime)]
           /\ UNCHANGED << file, today, app_vars, bt_vars >>

\* TideschartDotCom.parse_high_tide_data({'URL': the text of a row})
CallParseHighTideData ==
    /\ call = NoCall
    /\ \E sh \in {x \in RowShapes : x.head = "ok" /\ x.sep = " "} :
           /\ call' = [fn |-> "parse_high_tide_data", arg |-> [URL |-> PyStr(RowText(sh))],
                       today |-> today,
                       result |-> TideschartDotCom_parse_high_tide_data(
                                      [URL |-> PyStr(RowText(sh))], today)]
           /\ UNCHANGED << file, today, app_vars, bt_vars >>

\* TideschartDotCom.load_URLs(file)
CallLoadURLs ==
    /\ call = NoCall
    /\ \E f \in LoaderFiles :
           /\ call' = [fn |-> "load_URLs", arg |-> f, today |-> today, result |-> load_URLs(f)]
           /\ UNCHANGED << file, today, app_vars, bt_vars >>

\* TideschartDotCom.load_searches(file)
CallLoadSearches ==
    /\ call = NoCall
    /\ \E f \in LoaderFiles :
           /\ call' = [fn |-> "load_searches", arg |-> f, today |-> today,
                       result |-> load_searches(f)]
           /\ UNCHANGED << file, today, app_vars, bt_vars >>

\* TidesApp().load_user_locations(file): the exception, and self.mode and
\* self.locations as the call leaves them
CallLoadUserLocations ==
    /\ call = NoCall
    /\ \E f \in LoaderFiles \ {MissingFile} :
           /\ call' = [fn |-> "load_user_locations", arg |-> f, today |-> today,
                       result |-> LoadUserLocations(f, "UNKNOWN", <<>>)]
           /\ UNCHANGED << file, today, app_vars, bt_vars >>

\* int2str(n)
CallInt2str ==
    /\ call = NoCall
    /\ \E n \in Int2strArgs :
           /\ call' = [fn |-> "int2str", arg |-> n, today |-> today, result |-> int2str(n)]
           /\ UNCHANGED << file, today, app_vars, bt_vars >>

NextFn ==
    \/ CallDay2datetime
    \/ CallParseHighTideData
    \/ CallLoadURLs
    \/ CallLoadSearches
    \/ CallLoadUserLocations
    \/ CallInt2str

InitFn == Init /\ file = NoFile

SpecFn == InitFn /\ [][NextFn]_vars

\* ------------------------------------------------------------------------
\* Pybluez_ez: the scan of the Bluetooth controller
\* ------------------------------------------------------------------------

\* what 'bluetoothctl show' prints for the setting 'discovering'; "absent"
\* is an output without the setting
Discovering == {"yes", "no", "absent", "other"}

\* check_if_scanning(check_if_enabled), 'bluetoothctl show' printing shown:
\* the method reaches show through the global btctl, not through self
check_if_scanning(check_if_enabled, shown) ==
    IF ~btctl_bound THEN Raise("NameError")
    ELSE IF shown = "absent" THEN Raise("ValueError")
    ELSE IF shown = "yes" THEN Return(IF check_if_enabled THEN "True" ELSE "False")
    ELSE IF shown = "no" THEN Return(IF check_if_enabled THEN "False" ELSE "True")
    ELSE Raise("ValueError")

check_if_scanning_enabled(shown) == check_if_scanning(TRUE, shown)

check_if_scanning_disabled(shown) == check_if_scanning(FALSE, shown)

\* a scan_off that calls every method
AttemptAlways(status) == status \in {"None", "False", "True"}

\* if not scan_status: None and False are not true
Attempt(status) == status # "True"

\* a method called by scan_off has returned, or has raised: scan_off keeps
\* what it returned in scan_status, and has no handler for an exception
Attempted(method, outcome, next) ==
    /\ bt_trace' = Append(bt_trace, [method |-> method,
                                     result |-> IF outcome.exc = "none" THEN outcome.val
                                                ELSE "raise"])
    /\ IF outcome.exc = "none"
       THEN /\ scan_status' = outcome.val
            /\ bt_pc' = next
            /\ UNCHANGED bt_result
       ELSE /\ bt_pc' = "raised"
            /\ bt_result' = outcome
            /\ UNCHANGED scan_status

\* if __name__ == '__main__': btctl = Pybluez_ez()
Main ==
    /\ bt_pc = "idle"
    /\ ~btctl_bound
    /\ btctl_bound' = TRUE
    /\ UNCHANGED << bt_scanning_proc, discovering, scan_procs, scan_status, bt_pc,
                    bt_result, bt_trace, input_vars, app_vars >>

\* the host: other programs start and stop scans, the service comes and goes
Host ==
    /\ bt_pc \in {"idle", "returned"}
    /\ discovering' \in Discovering
    /\ scan_procs' \in 0..MaxProcs
    /\ UNCHANGED << bt_scanning_proc, btctl_bound, scan_status, bt_pc, bt_result,
                    bt_trace, input_vars, app_vars >>

\* scan_on: nothing when the scan is on already; otherwise 'bluetoothctl
\* scan on' is spawned and kept in bt_scanning_proc once the scan is
\* confirmed.  The message of the other case is printed to a stderr that
\* the module does not import.
scan_on ==
    /\ bt_pc \in {"idle", "returned"}
    /\ scan_procs < MaxProcs
    /\ LET enabled == check_if_scanning_enabled(discovering)
       IN  IF enabled.exc # "none"
           THEN /\ bt_pc' = "raised"
                /\ bt_result' = enabled
                /\ UNCHANGED << bt_scanning_proc, discovering, scan_procs >>
           ELSE IF enabled.val = "True"
           THEN UNCHANGED << bt_scanning_proc, discovering, scan_procs, bt_pc, bt_result >>
           ELSE /\ scan_procs' = scan_procs + 1
                /\ \E shown \in {"yes", "no"} :
                       /\ discovering' = shown
                       /\ IF shown = "yes"
                          THEN /\ bt_scanning_proc' = "proc"
                               /\ UNCHANGED << bt_pc, bt_result >>
                          ELSE /\ bt_pc' = "raised"
                               /\ bt_result' = Raise("NameError")
                               /\ UNCHANGED bt_scanning_proc
    /\ UNCHANGED << btctl_bound, scan_status, bt_trace, input_vars, app_vars >>

\* scan_off is called
scan_off ==
    /\ bt_pc \in {"idle", "returned"}
    /\ bt_pc' = "asyncio"
    /\ scan_status' = "None"
    /\ bt_result' = NoResult
    /\ bt_trace' = <<>>
    /\ UNCHANGED << bt_scanning_proc, btctl_bound, discovering, scan_procs, input_vars,
                    app_vars >>

\* scan_status = self.scan_off_via_asyncio(): None without a process of
\* this program; otherwise the process is killed, which fails when it is
\* gone and may leave its child scanning, and the setting is read
scan_off_via_asyncio ==
    /\ bt_pc = "asyncio"
    /\ IF bt_scanning_proc = "None"
       THEN /\ Attempted("asyncio", Return("None"), "cli")
            /\ UNCHANGED << bt_scanning_proc, discovering, scan_procs >>
       ELSE \E killed \in BOOLEAN, shown \in {discovering, "no"},
               left \in {scan_procs, IF scan_procs > 0 THEN scan_procs - 1 ELSE 0} :
               IF ~killed
               THEN /\ Attempted("asyncio", Raise("ProcessLookupError"), "cli")
                    /\ UNCHANGED << bt_scanning_proc, discovering, scan_procs >>
               ELSE LET disabled == check_if_scanning_disabled(shown)
                    IN  /\ discovering' = shown
                        /\ scan_procs' = left
                        /\ bt_scanning_proc' =
                              IF disabled.exc = "none" /\ disabled.val = "True"
                              THEN "None" ELSE bt_scanning_proc
                        /\ Attempted("asyncio", disabled, "cli")
    /\ UNCHANGED << btctl_bound, input_vars, app_vars >>

\* if not scan_status: scan_status = self.scan_off_via_cli(): inactive at
\* once when the scan is off; otherwise 'bluetoothctl scan off' is run,
\* which may fail, and the setting is read again
scan_off_via_cli ==
    /\ bt_pc = "cli"
    /\ IF Attempt(scan_status)
       THEN LET disabled == check_if_scanning_disabled(discovering)
            IN  IF disabled.exc # "none" \/ disabled.val = "True"
                THEN /\ Attempted("cli", disabled, "kill")
                     /\ UNCHANGED discovering
                ELSE \E shown \in {"yes", "no"} :
                        /\ discovering' = shown
                        /\ Attempted("cli", check_if_scanning_disabled(shown), "kill")
       ELSE /\ bt_pc' = "kill"
            /\ UNCHANGED << discovering, scan_status, bt_result, bt_trace >>
    /\ UNCHANGED << bt_scanning_proc, btctl_bound, scan_procs, input_vars, app_vars >>

\* if not scan_status: scan_status = self.scan_off_via_process_kill():
\* every 'bluetoothctl scan on' process is killed; True when there was
\* none or none is left.  One that is left is reported to a stderr that
\* the module does not import.
scan_off_via_process_kill ==
    /\ bt_pc = "kill"
    /\ IF Attempt(scan_status)
       THEN \E left \in 0..scan_procs,
               shown \in (IF discovering = "yes" THEN {"yes", "no"} ELSE {discovering}) :
               /\ scan_procs' = left
               /\ discovering' = shown
               /\ Attempted("kill",
                            IF scan_procs > 0 /\ left > 0 THEN Raise("NameError")
                            ELSE Return("True"),
                            "return")
       ELSE /\ bt_pc' = "return"
            /\ UNCHANGED << discovering, scan_procs, scan_status, bt_result, bt_trace >>
    /\ UNCHANGED << bt_scanning_proc, btctl_bound, input_vars, app_vars >>

\* return scan_status
scan_off_return ==
    /\ bt_pc = "return"
    /\ bt_pc' = "returned"
    /\ bt_result' = Return(scan_status)
    /\ UNCHANGED << bt_scanning_proc, btctl_bound, discovering, scan_procs, scan_status,
                    bt_trace, input_vars, app_vars >>

NextBt ==
    \/ Main
    \/ Host
    \/ scan_on
    \/ scan_off
    \/ scan_off_via_asyncio
    \/ scan_off_via_cli
    \/ scan_off_via_process_kill
    \/ scan_off_return

InitBt == Init /\ file = NoFile /\ today = CHOOSE d \in Dates : TRUE

SpecBt == InitBt /\ [][NextBt]_vars

\* ------------------------------------------------------------------------
\* Properties
\* ------------------------------------------------------------------------

\* what the program did for the L-th location, in order
Ev(L) == SelectSeq(trace, LAMBDA e : e.loc = L)

\* the positions of the events op in a sequence of events
At(ev, op) == {k \in 1..Len(ev) : ev[k].op = op}

\* C1: when every wait for a clickable result times out (and no other
\* step of the search fails), the search makes exactly MAX_TIMEOUTS
\* attempts and ends with the TimeoutError raised after the loop, and with
\* nothing else.
C1_ExhaustedAfterMaxTimeouts ==
    (/\ mode = "MUNIs"
     /\ pc = "raised"
     /\ error.at \notin {"mainapp", "submit"}
     /\ this_result = "None")
    => /\ error = [exc |-> "TimeoutError", at |-> "after_while"]
       /\ timeouts = MAX_TIMEOUTS
       /\ Cardinality(At(Ev(idx), "timeout")) = MAX_TIMEOUTS

\* C2: the search ends on the first attempt whose wait finds a clickable
\* result, after fewer than MAX_TIMEOUTS timeouts: nothing follows that
\* attempt but one click on the result, with no error, and no result is
\* clicked in a search that ran out of timeouts.
C2_FirstMatchEndsSearch ==
    mode = "MUNIs" =>
      \A L \in 1..idx :
        LET ev == Ev(L)
        IN  /\ \A k \in At(ev, "found") :
                 /\ Cardinality({j \in At(ev, "timeout") : j < k}) < MAX_TIMEOUTS
                 /\ \A j \in (k + 1)..Len(ev) : j = k + 1 /\ ev[j].op = "click_result"
                 /\ (L < idx \/ pc \in {"for", "done"}) => Len(ev) = k + 1
                 /\ L = idx => error = NoError
            /\ \A k \in At(ev, "click_result") : k > 1 /\ ev[k - 1].op = "found"
            /\ (L = idx /\ error.exc = "TimeoutError") => At(ev, "click_result") = {}

C2_Witness ==
    /\ mode = "MUNIs"
    /\ pc = "for"
    /\ idx = 1
    /\ timeouts = 3
    /\ trace[Len(trace)].op = "click_result"

\* the delays of one search, in order, when every wait times out
EXPECTED_DELAYS == <<2, 4, 8, 12, 20, 32, 48, 64, 2, 4>>

\* C3: in every search the delay slept after the k-th timeout is the
\* k-th of 2, 4, 8, 12, 20, 32, 48, 64, 2, 4: the delays increase up to
\* 64 and start again at 2, and every new search starts again at 2.
C3_BackoffSchedule ==
    mode = "MUNIs" =>
      \A L \in 1..idx :
        LET ev == Ev(L)
            slept == SelectSeq(ev, LAMBDA e : e.op = "sleep")
        IN  /\ Len(slept) <= Len(EXPECTED_DELAYS)
            /\ \A k \in 1..Len(slept) : slept[k].n = EXPECTED_DELAYS[k]
            /\ \A j \in At(ev, "sleep") :
                 Cardinality({k \in At(ev, "timeout") : k < j})
                   = Cardinality({k \in At(ev, "sleep") : k <= j})

C3_Witness ==
    /\ mode = "MUNIs"
    /\ idx = 2
    /\ Cardinality(At(Ev(1), "sleep")) = 9
    /\ Cardinality(At(Ev(2), "sleep")) = 2

\* C4: after a timeout of the wait for a result, the check for the notice
\* "Too many search requests" never ends the loop: whatever it finds, the
\* backoff sleep is next.
C4_NoticeNeverEndsLoop == [][pc = "too_many" => pc' = "sleep"]_vars

GrammarShape(sh) ==
    /\ sh.head = "ok"
    /\ sh.tail = "ok"
    /\ Len(sh.groups) \in {3, 4}
    /\ \A k \in 1..Len(sh.groups) : sh.groups[k] \in {"hi", "lo"}

\* the tide groups of a row that are marked high
HighGroups(sh) == {k \in 1..Len(sh.groups) : sh.groups[k] = "hi"}

\* a row has been parsed
Parsed == Len(data.text) > 0

\* C6: for a table of 7 rows, each of them well formed, the parser is
\* called once per row, in the order 0..6, and the list stored for the
\* location is the concatenation of the lists of the rows.
C6_EveryRowParsedInOrder ==
    mode = "URLs" =>
      \A L \in 1..idx :
        LET ev == Ev(L)
            parses == SelectSeq(ev, LAMBDA e : e.op = "parse")
        IN  (/\ \E k \in At(ev, "find_elements") : ev[k].n = 7
             /\ L < idx \/ pc \in {"for", "done", "raised"}
             /\ GrammarShape(data.shape)
             /\ Cardinality(HighGroups(data.shape)) \in {1, 2})
            => /\ Len(parses) = 7
               /\ \A k \in 1..7 : parses[k].n = k - 1
               /\ locations[L].URL \in DOMAIN weekly_tides
               /\ Len(weekly_tides[locations[L].URL]) \in 7..14

\* C7: a row of the grammar with 0, 3 or 4 tide groups marked high makes
\* the parser fail with ValueError, and every list the parser returns has
\* 1 or 2 timestamps.
C7_OneOrTwoHighTides ==
    (Parsed /\ GrammarShape(data.shape)) =>
      /\ Cardinality(HighGroups(data.shape)) \in {0, 3, 4}
           => data.result = Raise("ValueError")
      /\ data.result.exc = "none" => Len(data.result.val) \in {1, 2}

\* the clock time of the k-th tide group of a row
TideClock ==
    << [hour |-> 3, minute |-> 36], [hour |-> 9, minute |-> 9],
       [hour |-> 15, minute |-> 41], [hour |-> 21, minute |-> 17] >>

\* the k-th smallest element of a set of numbers
RECURSIVE Nth(_, _)
Nth(S, k) ==
    LET least == CHOOSE x \in S : \A y \in S : x <= y
    IN  IF k = 1 THEN least ELSE Nth(S \ {least}, k - 1)

\* C8: for a row of the grammar the parser returns one timestamp per tide
\* group marked high, in the order of the groups, and none for the groups
\* marked low or for an absent 4th group.
C8_OneTimestampPerHighGroup ==
    (/\ Parsed
     /\ GrammarShape(data.shape)
     /\ Cardinality(HighGroups(data.shape)) \in {1, 2})
    => /\ data.result.exc = "none"
       /\ Len(data.result.val) = Cardinality(HighGroups(data.shape))
       /\ \A k \in 1..Len(data.result.val) :
            LET g == TideClock[Nth(HighGroups(data.shape), k)]
            IN  /\ data.result.val[k].hour = g.hour
                /\ data.result.val[k].minute = g.minute

\* timestamp a is strictly earlier than timestamp b
Earlier(a, b) ==
    LET key(x) == <<x.year, x.month, x.day, x.hour, x.minute>>
    IN  \E k \in 1..5 : /\ key(a)[k] < key(b)[k]
                        /\ \A j \in 1..(k - 1) : key(a)[j] = key(b)[j]

\* C9: a row with exactly 3 tide groups, 2 of them marked high, gives 2
\* timestamps, the first strictly earlier than the second.
C9_ThreeGroupsTwoHighs ==
    (/\ Parsed
     /\ GrammarShape(data.shape)
     /\ Len(data.shape.groups) = 3
     /\ Cardinality(HighGroups(data.shape)) = 2)
    => /\ data.result.exc = "none"
       /\ Len(data.result.val) = 2
       /\ Earlier(data.result.val[1], data.result.val[2])

\* C10: a text that the grammar does not describe (no sunrise and sunset,
\* a tide time without am or pm, fewer than 3 or more than 4 tide groups,
\* no weekday or no day number) makes the parser fail with ValueError and
\* return no timestamp.
C10_MalformedRowIsValueError ==
    (Parsed /\ ~GrammarShape(data.shape)) =>
      /\ data.result = Raise("ValueError")
      /\ pc = "raised"
      /\ error = [exc |-> "ValueError", at |-> "row"]
      /\ weekly_tides_one_location = <<>>

C10_Witness ==
    /\ Parsed
    /\ data.shape.head = "ok"
    /\ data.shape.groups = <<"lo", "hi", "lo", "hi">>
    /\ data.shape.tail = "missing"
    /\ data.result = Raise("ValueError")

\* ------------------------------------------------------------------------
\* Properties of the functions called on their own
\* ------------------------------------------------------------------------

\* the two rows of test_parse_high_tide_data_01 of tests_tideschart_com.py
EXAMPLE_ROW_4 ==
    RowText([head |-> "ok", groups |-> <<"lo", "hi", "lo", "hi">>, tail |-> "ok",
             sep |-> " "])
EXAMPLE_ROW_3 ==
    RowText([head |-> "ok", groups |-> <<"lo", "hi", "lo">>, tail |-> "ok", sep |-> " "])

\* datetime(2022, 9, 22, hour, minute)
Sep22(hour, minute) ==
    [year |-> 2022, month |-> 9, day |-> 22, hour |-> hour, minute |-> minute]

\* C11: on 2022-09-21 the row 'Mon 22 3:36am v 0.98 ft 9:09am ^ 6.56 ft
\* 3:41pm v 1.64 ft 9:17pm ^ 7.55 ft ^ 5:57am v 7:35pm' parses to
\* [2022-09-22 09:09, 2022-09-22 21:17], and the same row without its 4th
\* tide group to [2022-09-22 09:09].
C11_ExampleRows ==
    (/\ call.fn = "parse_high_tide_data"
     /\ today = [year |-> 2022, month |-> 9, day |-> 21])
    => /\ call.arg = [URL |-> PyStr(EXAMPLE_ROW_4)]
          => call.result = Return(<<Sep22(9, 9), Sep22(21, 17)>>)
       /\ call.arg = [URL |-> PyStr(EXAMPLE_ROW_3)]
          => call.result = Return(<<Sep22(9, 9)>>)

\* day2datetime was called with the number q on the day call.today
Day2datetimeOf(q) ==
    /\ call.fn = "day2datetime"
    /\ call.arg.t = "int"
    /\ call.arg.v = q

\* datetime(year, month, day) as day2datetime returns it
Midnight(year, month, day) ==
    Return([year |-> year, month |-> month, day |-> day, hour |-> 0, minute |-> 0])

\* C12: for every today and every queried_day with
\* today.day <= queried_day <= 31 that is a valid day of today's month,
\* day2datetime returns midnight of that day of today's month and year:
\* there is no rollover.
C12_SameMonth ==
    \A q \in 0..31 :
        (/\ Day2datetimeOf(q)
         /\ call.today.day <= q
         /\ q <= DaysInMonth(call.today.year, call.today.month))
        => call.result = Midnight(call.today.year, call.today.month, q)

\* on the last day of a month the day itself is asked for
C12_Witness ==
    /\ Day2datetimeOf(30)
    /\ call.today = [year |-> 2022, month |-> 9, day |-> 30]
    /\ call.result = Midnight(2022, 9, 30)

\* the month after the month of d, and its year
FollowingMonth(d) == IF d.month = 12 THEN 1 ELSE d.month + 1
FollowingYear(d) == IF d.month = 12 THEN d.year + 1 ELSE d.year

\* C13 as stated: for every today and every queried_day with
\* 1 <= queried_day < today.day, day2datetime returns midnight of that day
\* of the month following today's month, in the next year exactly when
\* that month is January.
C13_FollowingMonth_Original ==
    \A q \in 1..MaxDay :
        (/\ Day2datetimeOf(q)
         /\ q < call.today.day)
        => call.result = Midnight(FollowingYear(call.today), FollowingMonth(call.today), q)

\* C13: for every today and every queried_day with
\* 1 <= queried_day < today.day that is a valid day of the month following
\* today's month, day2datetime returns midnight of that day of the
\* following month, in the next year exactly when that month is January.
C13_FollowingMonth ==
    \A q \in 1..MaxDay :
        (/\ Day2datetimeOf(q)
         /\ q < call.today.day
         /\ q <= DaysInMonth(FollowingYear(call.today), FollowingMonth(call.today)))
        => call.result = Midnight(FollowingYear(call.today), FollowingMonth(call.today), q)

\* late in December a day of early January is asked for
C13_Witness ==
    /\ Day2datetimeOf(3)
    /\ call.today = [year |-> 2022, month |-> 12, day |-> 28]
    /\ call.result = Midnight(2023, 1, 3)

\* the month day2datetime resolves the day q to on the day d, and its year
ResolvedMonth(q, d) == IF q < d.day THEN FollowingMonth(d) ELSE d.month
ResolvedYear(q, d) == IF q < d.day THEN FollowingYear(d) ELSE d.year

\* C14: when queried_day is not a valid day of the resolved month,
\* day2datetime raises an error; a date it returns is a date of the
\* calendar whose day is queried_day.
C14_InvalidDayRaises ==
    \A q \in 0..MaxDay :
        Day2datetimeOf(q)
        => /\ (q < 1 \/ q > DaysInMonth(ResolvedYear(q, call.today),
                                        ResolvedMonth(q, call.today)))
              => call.result.exc # "none"
           /\ call.result.exc = "none"
              => /\ call.result.val.day = q
                 /\ call.result.val.month \in 1..12
                 /\ q \in 1..DaysInMonth(call.result.val.year, call.result.val.month)

\* day 30 asked for on the 31st of January
C14_Witness ==
    /\ Day2datetimeOf(30)
    /\ call.today = [year |-> 2022, month |-> 1, day |-> 31]
    /\ call.result = Raise("ValueError")

\* the keys a loader documents: the one top-level key and the keys of a row
DocumentedKeys(fn) ==
    IF fn = "load_URLs" THEN {[top |-> "URLs", row |-> {"URL"}]}
    ELSE IF fn = "load_searches" THEN {[top |-> "SEARCHES", row |-> {"SEARCH", "HINT"}]}
    ELSE {[top |-> "URLs", row |-> {"URL"}], [top |-> "MUNIs", row |-> {"MUNI", "HINT"}]}

\* the JSON object d has exactly the key keys.top, and every row under it
\* has exactly the keys keys.row
ExactKeys(d, keys) ==
    /\ DOMAIN d = {keys.top}
    /\ \A k \in 1..Len(d[keys.top]) : DOMAIN d[keys.top][k] = keys.row

\* a loader was called on a JSON file and raised nothing
Accepted(fns) ==
    /\ call.fn \in fns
    /\ call.arg.kind = "json"
    /\ call.result.exc = "none"

\* C15: load_URLs, load_searches and load_user_locations accept a
\* configuration only if its top level has exactly one key, the documented
\* one of the mode, and every row has exactly the keys of that mode.
C15_ExactKeysOnly ==
    Accepted({"load_URLs", "load_searches", "load_user_locations"})
    => \E keys \in DocumentedKeys(call.fn) : ExactKeys(call.arg.data, keys)

\* a loader of direct-URL mode was called on a JSON file with the key URLs
DirectURL ==
    /\ call.fn \in {"load_URLs", "load_user_locations"}
    /\ call.arg.kind = "json"
    /\ "URLs" \in DOMAIN call.arg.data

\* an entry of the file has a URL that does not start with the site prefix
SomeURLOffSite ==
    \E k \in 1..Len(call.arg.data.URLs) :
        /\ "URL" \in DOMAIN call.arg.data.URLs[k]
        /\ call.arg.data.URLs[k].URL.t = "str"
        /\ ~StartsWith(call.arg.data.URLs[k].URL.v, SITE_PREFIX)

\* the URLs the call has loaded: the list load_URLs returns, the URLs of
\* self.locations after load_user_locations
LoadedURLs ==
    IF call.fn = "load_URLs" THEN call.result.val
    ELSE [k \in 1..Len(call.result.locations) |-> call.result.locations[k].URL]

\* when loading succeeds every loaded URL has the prefix and the list is
\* the list of the file, in its order
LoadedInOrder ==
    call.result.exc = "none"
    => /\ Len(LoadedURLs) = Len(call.arg.data.URLs)
       /\ \A k \in 1..Len(LoadedURLs) :
            /\ LoadedURLs[k] = call.arg.data.URLs[k].URL
            /\ StartsWith(LoadedURLs[k].v, SITE_PREFIX)

InvalidConfiguration ==
    /\ file.kind = "json"
    /\ \/ /\ "URLs" \notin DOMAIN file.data
          /\ "MUNIs" \notin DOMAIN file.data
       \/ /\ "URLs" \in DOMAIN file.data
          /\ \E k \in 1..Len(file.data.URLs) : CheckURL(file.data.URLs[k]) # "none"
       \/ /\ "URLs" \notin DOMAIN file.data
          /\ "MUNIs" \in DOMAIN file.data
          /\ \E k \in 1..Len(file.data.MUNIs) : CheckMUNI(file.data.MUNIs[k]) # "none"

C18_NoEmptyHintSearched ==
    (/\ mode = "MUNIs"
     /\ pc = "while")
    => /\ "HINT" \in DOMAIN municipality
       /\ municipality.HINT.t = "str"
       /\ municipality.HINT.v # <<>>

\* the positions of trace where the browser was used or a row parsed
\* (the close of the session is not for a location)
Steps == {k \in 1..Len(trace) : trace[k].op # "close"}

\* C19: the locations are processed strictly one after another on one
\* browser session: for i < j every browser operation and row parse for
\* location i comes before the first one for location j, and the session
\* all of them use is the one mainapp opened.
C19_OneLocationAtATime ==
    /\ \A k, l \in Steps : k < l => trace[k].loc <= trace[l].loc
    /\ \A k \in Steps : trace[k].loc \in 1..idx
    /\ Steps # {} => driver \in {"open", "closed"}
    /\ driver = "closed" <=> (trace # <<>> /\ trace[Len(trace)].op = "close")
    /\ \A k \in 1..Len(trace) : trace[k].op = "close" => k = Len(trace)

\* the second location is being searched for after the first was found
C19_Witness ==
    /\ mode = "MUNIs"
    /\ driver = "open"
    /\ idx = 2
    /\ \E k, l \in Steps : trace[k].loc = 1 /\ trace[l].loc = 2
    /\ trace[Len(trace)].op = "send_keys"

\* how often op was done for the L-th location
Count(L, op) == Cardinality(At(Ev(L), op))

\* C20: only the timeout of the wait for a search result is retried.  A
\* table with other than 7 rows and a row that does not parse raise their
\* error to the caller of mainapp unchanged, the page of a location is
\* navigated to once and no row is parsed twice, and no error of a
\* retrieval step is caught and dropped: the run ends with it.
C20_OnlyResultTimeoutRetried ==
    /\ \A k \in 1..Len(trace) :
         (trace[k].op = "find_elements" /\ trace[k].n # 7)
         => /\ k = Len(trace)
            /\ pc = "raised"
            /\ error = [exc |-> "ValueError", at |-> "get_weekly_tides"]
    /\ data.result.exc # "none"
       => /\ trace[Len(trace)].op = "parse"
          /\ pc = "raised"
          /\ error = [exc |-> data.result.exc, at |-> "row"]
    /\ error.exc # "none" <=> pc = "raised"
    /\ mode = "URLs"
       => \A L \in 1..idx :
            /\ Count(L, "get") <= 1
            /\ Count(L, "find_elements") <= 1
            /\ pc = "row" /\ L = idx => Count(L, "get") = 1
            /\ \A k, l \in At(Ev(L), "parse") : k < l => Ev(L)[k].n < Ev(L)[l].n
    /\ mode = "MUNIs"
       => \A L \in 1..idx : Count(L, "get") <= Count(L, "timeout") + 1

\* a row that does not match the pattern has ended the run with its
\* ValueError, after one navigation to the page
C20_Witness ==
    /\ mode = "URLs"
    /\ pc = "raised"
    /\ error = [exc |-> "ValueError", at |-> "row"]
    /\ data.result = Raise("ValueError")
    /\ Count(1, "get") = 1
    /\ Count(1, "parse") = 1

\* the key mainapp stores the result of a location under
Key(location) == IF "URL" \in DOMAIN location THEN location.URL ELSE location.MUNI

\* C21: in search mode, after the search for a location has succeeded, the
\* weekly table of the page is retrieved and parsed, and mainapp stores
\* under that location a list of the high tides of the week, as in
\* direct-URL mode.
C21_SearchStoresList ==
    mode = "MUNIs"
    => \A L \in 1..idx :
         (Count(L, "click_result") = 1 /\ Key(locations[L]) \in DOMAIN weekly_tides)
         => /\ weekly_tides[Key(locations[L])] # PyNone
            /\ Count(L, "find_elements") = 1
            /\ Count(L, "parse") = 7

\* C22: when no input file is passed, the default list is loaded and
\* mainapp calls the retriever for each of its locations: when mainapp is
\* done the result has an entry for every default location.
C22_DefaultsRetrieved ==
    (file = NoFile /\ pc \notin {"mainapp"})
    => /\ error = NoError
       /\ locations = DEFAULT_URLS
       /\ pc = "done"
          => /\ DOMAIN weekly_tides = {Key(DEFAULT_URLS[k]) : k \in 1..Len(DEFAULT_URLS)}
             /\ \A k \in 1..Len(DEFAULT_URLS) : Count(k, "get") = 1

\* C26: in the search loop 0 <= timeouts <= MAX_TIMEOUTS and
\* 0 <= too_many_searches_errors <= timeouts; both counters are reset at
\* the start of every search, so that timeouts counts the timeouts of the
\* current location only; and the loop body is never entered with
\* timeouts = MAX_TIMEOUTS.
C26_CountersOfThisSearch ==
    /\ timeouts \in 0..MAX_TIMEOUTS
    /\ too_many_searches_errors \in 0..timeouts
    /\ pc = "submit" => timeouts < MAX_TIMEOUTS
    /\ (mode = "MUNIs" /\ idx >= 1)
       => /\ timeouts = Count(idx, "timeout")
          /\ Count(idx, "get") = 0 => (timeouts = 0 /\ too_many_searches_errors = 0)

\* the search for the second location starts at 0 after a first search
\* that had timeouts
C26_Witness ==
    /\ mode = "MUNIs"
    /\ idx = 2
    /\ pc = "submit"
    /\ Count(1, "timeout") = 2
    /\ Count(2, "get") = 0
    /\ timeouts = 0

\* the call of the search for the L-th location has ended
SearchEnded(L) == L < idx \/ pc \in {"for", "raised", "done"}

\* C27: attempts and sleep_tracker are never cleared, and a search call
\* that ends with t timeouts has appended t entries to sleep_tracker, and
\* to attempts t + 1 entries if it succeeded and t entries otherwise, each
\* tagged with the location of the call.
C27_OneEntryPerTimeout ==
    mode = "MUNIs"
    => \A L \in 1..idx :
         SearchEnded(L)
         => /\ Len(SelectSeq(sleep_tracker, LAMBDA e : e[1] = locations[L].MUNI))
               = Count(L, "timeout")
            /\ Len(SelectSeq(attempts, LAMBDA a : a = locations[L].MUNI))
               = Count(L, "timeout") + Count(L, "found")

\* C29: the 7 rows of a table are resolved against one reference date:
\* the date read for every row is the date of the day the page was loaded,
\* even when midnight passes before the last row is parsed.
C29_OneReferenceDate ==
    mode = "URLs"
    => \A L \in 1..idx :
         \A k \in At(Ev(L), "parse") : Ev(L)[k].day = Ev(L)[1].day

\* C30: mainapp closes the session once, and only after every location
\* has been processed; when the retrieval of a location raises, the run
\* ends there: no later location is visited, the entries stored for the
\* earlier locations stay, and the session is never closed.
C30_ClosedAfterAllLocations ==
    /\ driver = "closed"
       => /\ pc = "done"
          /\ Cardinality(At(trace, "close")) = 1
          /\ \A k \in 1..Len(locations) : Key(locations[k]) \in DOMAIN weekly_tides
    /\ (pc = "raised" /\ error.at # "mainapp")
       => /\ driver = "open"
          /\ At(trace, "close") = {}
          /\ \A k \in 1..Len(trace) : trace[k].loc <= idx
          /\ DOMAIN weekly_tides = {Key(locations[k]) : k \in 1..(idx - 1)}

\* ------------------------------------------------------------------------
\* Properties of the functions called on their own, continued
\* ------------------------------------------------------------------------

\* the rows of a weekly table: for i in range(7)
WEEK == 7

\* the date k days after d
RECURSIVE AddDays(_, _)
AddDays(d, k) == IF k = 0 THEN d ELSE AddDays(NextDay(d), k - 1)

\* C28: for every today and every offset k in 0..6, day2datetime applied
\* to the day of the month of today + k days returns the date today + k
\* days: the 7 rows of a table that starts today resolve to 7 consecutive
\* dates.
C28_WeekFromToday ==
    \A k \in 0..(WEEK - 1) :
        Day2datetimeOf(AddDays(call.today, k).day)
        => LET d == AddDays(call.today, k)
           IN  call.result = Midnight(d.year, d.month, d.day)

\* the last row of a table loaded on 26 February of a leap year
C28_Witness ==
    /\ Day2datetimeOf(3)
    /\ call.today = [year |-> 2024, month |-> 2, day |-> 26]
    /\ call.result = Midnight(2024, 3, 3)

\* C23: int2str raises ValueError, and returns no string, for every
\* argument that is not an integer (a string, a float) and for every
\* integer below -999999999 or above 999999999; the two ends of the range
\* are accepted.
C23_InvalidInputRaises ==
    call.fn = "int2str"
    => /\ call.arg.t # "int" => call.result = Raise("ValueError")
       /\ call.arg.t = "int"
          => IF call.arg.v < 0 - 999999999 \/ call.arg.v > 999999999
             THEN call.result = Raise("ValueError")
             ELSE call.result.exc = "none"

\* the integer after MAX is refused
C23_Witness ==
    /\ call.fn = "int2str"
    /\ call.arg = PyInt(1000000000)
    /\ call.result = Raise("ValueError")

\* the reference wording: the words of 1..19 and of the tens 20..90
OnesWords ==
    << "one", "two", "three", "four", "five", "six", "seven", "eight", "nine",
       "ten", "eleven", "twelve", "thirteen", "fourteen", "fifteen", "sixteen",
       "seventeen", "eighteen", "nineteen" >>
TensWords ==
    << "twenty", "thirty", "forty", "fifty", "sixty", "seventy", "eighty", "ninety" >>

\* the words of a group 1..999: '<digit> hundred', the tens word, the
\* word of 1..19
GroupWords(g) ==
    LET r == g % 100
    IN  (IF g >= 100 THEN << OnesWords[g \div 100], "hundred" >> ELSE << >>)
        \o (IF r >= 20 THEN << TensWords[(r \div 10) - 1] >> ELSE << >>)
        \o (IF r >= 20 /\ r % 10 > 0 THEN << OnesWords[r % 10] >>
            ELSE IF r >= 1 /\ r < 20 THEN << OnesWords[r] >>
            ELSE << >>)

\* the words of an integer of the range other than 0
Wording(n) ==
    LET a == IF n < 0 THEN 0 - n ELSE n
        m == a \div 1000000
        th == (a \div 1000) % 1000
        u == a % 1000
    IN  (IF n < 0 THEN << "negative" >> ELSE << >>)
        \o (IF m > 0 THEN GroupWords(m) \o << "million" >> ELSE << >>)
        \o (IF th > 0 THEN GroupWords(th) \o << "thousand" >> ELSE << >>)
        \o (IF u > 0 THEN GroupWords(u) ELSE << >>)

\* words joined by single spaces, none at either end
RECURSIVE Join(_)
Join(words) ==
    IF Len(words) <= 1 THEN words
    ELSE << Head(words), " " >> \o Join(Tail(words))

Methods == << "asyncio", "cli", "kill" >>

\* C25: scan_off calls its three methods in the order asyncio, CLI,
\* process kill; a method is called only when no earlier one returned
\* True (inactive), so none is called after one that did; and scan_off
\* returns True exactly when the last method it called returned True.
C25_ScanOffOrder ==
    /\ Len(bt_trace) <= Len(Methods)
    /\ \A k \in 1..Len(bt_trace) :
          /\ bt_trace[k].method = Methods[k]
          /\ \A j \in 1..(k - 1) : bt_trace[j].result # "True"
    /\ (bt_result.exc = "none" /\ bt_result.val = "True")
       <=> /\ bt_pc = "returned"
           /\ bt_trace # << >>
           /\ bt_trace[Len(bt_trace)].result = "True"

\* the asyncio process is killed without effect, the CLI fails, and the
\* kill of the processes succeeds: scan_off returns True after three calls
C25_Witness ==
    /\ bt_pc = "returned"
    /\ Len(bt_trace) = 3
    /\ bt_trace[1].result = "False"
    /\ bt_trace[2].result = "False"
    /\ bt_result.val = "True"

============================================================================
